---- MODULE Spec2Model ----
(***************************************************************************)
(* Model of the agentic Facebook-ads analyst: the orchestration loop of    *)
(* AgenticOrchestrator.execute and its final report                        *)
(* (src/workflows/main_workflow.py), the try block of src/main.py around   *)
(* it, the hypothesis validation of EvaluatorAgent                         *)
(* (src/agents/evaluator_agent.py) with the ValidationResult schema of     *)
(* src/utils/validators.py, the ways the other agents return or raise, and *)
(* the retry loop of LLMClient.generate (src/utils/llm_client.py).         *)
(*                                                                         *)
(* Numbers: every Python float is an integer count of millionths (1e-6),   *)
(* so 0.05 is 50000 and 1.0 is 1000000.  round(x, n) is modelled by Round, *)
(* which rounds to a multiple of 10^(6-n) millionths.                      *)
(*                                                                         *)
(* The data frame is held by what _validate_hypothesis reads from it: the  *)
(* number of rows per creative_type value (rows are in date order after    *)
(* load_fb_ads_data) and, as the outcome of scipy's ttest_ind and of the   *)
(* Cohen's d computation on the metric column, one (p, effect) pair per    *)
(* way of splitting the rows.  These pairs are inputs of the model.  Rows  *)
(* are numbered from 1 in date order; the groups of a split are sets of    *)
(* row numbers.                                                            *)
(***************************************************************************)
EXTENDS Integers, Sequences, FiniteSets, TLC

VARIABLES
    df,               \* the data file's content, as load_fb_ads_data returns it
    max_replans,      \* AgenticOrchestrator.max_replans
    pc,               \* position inside execute (or of the stand-alone call)
    iteration,        \* local `iteration` of execute
    data_summary,     \* local `data_summary`
    task_plan,        \* local `task_plan`
    insight_output,   \* insight_output.hypotheses_generated
    evaluator_output, \* local `evaluator_output`
    creative_analysis,\* local `creative_analysis`
    report,           \* the FinalReport execute returns
    error,            \* the exception execute raised ("None" while none)
    history,          \* history variable: one entry per evaluation pass
    calls,            \* history variable: agents invoked, in order
    response,         \* history variable: the last text-generation response
    files,            \* main.py: the output files written
    exit_status,      \* main.py: the status the process exits with
    logged_error,     \* main.py: the exception logged as "Workflow failed"
    vhyp,             \* stand-alone call: the hypothesis validated
    vresult,          \* stand-alone call: the ValidationResult returned
    vtrace,           \* stand-alone call: locals of _validate_hypothesis
    constructed,      \* stand-alone call: outcome of ValidationResult(...)
    llm               \* stand-alone call: locals of LLMClient.generate

vars == <<df, max_replans, pc, iteration, data_summary, task_plan,
          insight_output, evaluator_output, creative_analysis, report,
          error, history, calls, response, files, exit_status,
          logged_error, vhyp, vresult, vtrace, constructed, llm>>

orch_vars == <<max_replans, iteration, data_summary, task_plan,
               creative_analysis, report, history, calls, response>>

main_vars == <<files, exit_status, logged_error>>

probe_vars == <<vhyp, vresult, vtrace, constructed>>

----------------------------------------------------------------------------
(* Bounds of the model *)

MaxHyps == 2          \* longest list of hypotheses an agent call returns
MaxReplansBound == 3  \* largest max_replans the constructor is given
MaxResults == 10      \* most validation results a report is built from
MaxRetriesBound == 3  \* largest max_retries LLMClient.generate is given

----------------------------------------------------------------------------
(* Floats as millionths, and Python's round *)

One == 1000000

\* absent Optional[float] / Optional[str]
None == -1
NoneStr == "None"

\* nearest multiple of q, ties to the even multiple
RoundDiv(x, q) ==
    LET d == x \div q
        r == x % q
    IN  IF 2 * r < q THEN d
        ELSE IF 2 * r > q THEN d + 1
        ELSE IF d % 2 = 0 THEN d ELSE d + 1

Pow10(n) == IF n = 0 THEN 1 ELSE IF n = 1 THEN 10 ELSE IF n = 2 THEN 100
            ELSE IF n = 3 THEN 1000 ELSE IF n = 4 THEN 10000
            ELSE IF n = 5 THEN 100000 ELSE One

\* round(x, ndigits)
Round(x, ndigits) == Pow10(6 - ndigits) * RoundDiv(x, Pow10(6 - ndigits))

Min(a, b) == IF a < b THEN a ELSE b

----------------------------------------------------------------------------
(* The data frame *)

\* columns of the CSV that the agents read by name
Columns == {"date", "campaign_name", "creative_type", "platform", "country",
            "spend", "revenue", "impressions", "clicks", "purchases",
            "roas", "ctr", "creative_message"}

\* values of the creative_type column that occur in the modelled files
SegmentValues == {"Image", "Video"}

RECURSIVE SumRows(_)
\* number of rows of a run of blocks
SumRows(blocks) ==
    IF blocks = <<>> THEN 0 ELSE Head(blocks).n + SumRows(Tail(blocks))

\* len(df)
LenDf(d) == SumRows(d.blocks)

\* columns load_fb_ads_data reads by name: df['date'], and df['spend'] and
\* df['clicks'] for the derived cost per click
LoaderColumns == {"date", "spend", "clicks"}

\* load_fb_ads_data(file_path): "None" when it returns the frame, else the
\* exception it logs and re-raises
LoadRaises(d) ==
    IF ~d.readable THEN "FileNotFoundError"
    ELSE IF LoaderColumns \subseteq d.columns THEN NoneStr ELSE "KeyError"

\* df.columns after loading: the file's columns and the derived cpc
LoadedColumns(d) == d.columns \cup {"cpc"}

\* len(df[df["creative_type"] == value])
CountEq(d, value) ==
    SumRows(SelectSeq(d.blocks, LAMBDA b : b.value = value))

\* len(df[df["creative_type"] != value])
CountNe(d, value) ==
    SumRows(SelectSeq(d.blocks, LAMBDA b : b.value # value))

----------------------------------------------------------------------------
(* utils/validators.py: HypothesisStatus, ValidationResult, Insight *)

VALIDATED == "validated"
REJECTED == "rejected"
NEEDS_MORE_DATA == "needs_more_data"

HypothesisStatus == {VALIDATED, REJECTED, NEEDS_MORE_DATA}

\* mutant: the upper bound of the field is dropped
ConfidenceInRange_NoUpper(v) == 0 <= v

\* Field(..., ge=0.0, le=1.0) and validate_confidence
ConfidenceInRange(v) == 0 <= v /\ v <= One

\* Optional[float] = Field(None, ge=0.0, le=1.0)
PValueInRange(v) == v = None \/ (0 <= v /\ v <= One)

\* ValidationResult(**fields): ok is FALSE when pydantic raises
\* ValidationError, else value is the model instance; the field validator
\* stores round(confidence_score, 3)
ValidationResult(fields) ==
    IF /\ fields.status \in HypothesisStatus
       /\ ConfidenceInRange(fields.confidence_score)
       /\ PValueInRange(fields.p_value)
    THEN [ok |-> TRUE,
          value |-> [fields EXCEPT
                       !.confidence_score = Round(fields.confidence_score, 3)]]
    ELSE [ok |-> FALSE, value |-> fields]

NoMetrics == [sample_size_a |-> None, sample_size_b |-> None]

----------------------------------------------------------------------------
(* agents/evaluator_agent.py: _validate_hypothesis *)

\* truth value of an Optional[str] in `a and b`
Truthy(s) == s # NoneStr /\ s # ""

Segmented(hypothesis) ==
    Truthy(hypothesis.segment_dimension) /\ Truthy(hypothesis.segment_value)

\* df[hypothesis.segment_dimension] raises KeyError for an unknown column
PartitionRaises(hypothesis, d) ==
    /\ Segmented(hypothesis)
    /\ hypothesis.segment_dimension \notin LoadedColumns(d)

\* mutant: the midpoint rounded up
mid_point_Ceil(d) == (LenDf(d) + 1) \div 2

mid_point(d) == LenDf(d) \div 2

RECURSIVE ValueAt(_, _)
\* creative_type of row i of a run of blocks
ValueAt(blocks, i) ==
    IF i <= Head(blocks).n THEN Head(blocks).value
    ELSE ValueAt(Tail(blocks), i - Head(blocks).n)

\* df[column].iloc[i - 1]: the rows are numbered from 1 in the date order
\* load_fb_ads_data sorts them into; creative_type is the one dimension
\* whose values the model keeps
RowValue(d, i) == ValueAt(d.blocks, i)

\* group_a: df[df[dim] == value], or df.iloc[:mid_point]
GroupA(hypothesis, d) ==
    IF Segmented(hypothesis)
    THEN {i \in 1..LenDf(d) : RowValue(d, i) = hypothesis.segment_value}
    ELSE 1..mid_point(d)

\* group_b: df[df[dim] != value], or df.iloc[mid_point:]
GroupB(hypothesis, d) ==
    IF Segmented(hypothesis)
    THEN {i \in 1..LenDf(d) : RowValue(d, i) # hypothesis.segment_value}
    ELSE (mid_point(d) + 1)..LenDf(d)

\* len(group_a)
LenGroupA(hypothesis, d) ==
    IF Segmented(hypothesis)
    THEN CountEq(d, hypothesis.segment_value)
    ELSE mid_point(d)

\* len(group_b)
LenGroupB(hypothesis, d) ==
    IF Segmented(hypothesis)
    THEN CountNe(d, hypothesis.segment_value)
    ELSE LenDf(d) - mid_point(d)

MinSample == 30

\* mutant: `and` for `or`
SampleTooSmall_And(n_a, n_b) == n_a < MinSample /\ n_b < MinSample

\* len(group_a) < 30 or len(group_b) < 30
SampleTooSmall(n_a, n_b) == n_a < MinSample \/ n_b < MinSample

\* group_a[metric] raises KeyError for an unknown column
MetricRaises(hypothesis, d) ==
    hypothesis.metric_to_test \notin LoadedColumns(d)

\* (p_value, effect_size) of stats.ttest_ind and of Cohen's d on the split
TestOutcome(hypothesis, d) ==
    IF Segmented(hypothesis)
    THEN d.seg_test[hypothesis.segment_value]
    ELSE d.time_test

\* mutant: every p-value below 0.1 scores 1.0
sig_score_Flat(p_value) == IF p_value < 100000 THEN One ELSE 0

sig_score(p_value) ==
    IF p_value < 50000 THEN One ELSE IF p_value < 100000 THEN 500000 ELSE 0

\* mutant: the conventional 0.8 / 0.5 cut-offs of Cohen's d
effect_score_Large(effect_size) ==
    IF effect_size > 800000 THEN One
    ELSE IF effect_size > 500000 THEN 600000 ELSE 300000

effect_score(effect_size) ==
    IF effect_size > 500000 THEN One
    ELSE IF effect_size > 300000 THEN 600000 ELSE 300000

\* mutant: `>=` for `>`
sample_score_Ge(n_a, n_b) == IF Min(n_a, n_b) >= 100 THEN One ELSE 700000

sample_score(n_a, n_b) == IF Min(n_a, n_b) > 100 THEN One ELSE 700000

\* 0.4 * sig_score + 0.4 * effect_score + 0.2 * sample_score
confidence_score(p_value, effect_size, n_a, n_b) ==
    (4 * sig_score(p_value) + 4 * effect_score(effect_size)
       + 2 * sample_score(n_a, n_b)) \div 10

\* if p_value < 0.05 and effect_size > 0.3
status_of(p_value, effect_size) ==
    IF p_value < 50000 /\ effect_size > 300000 THEN VALIDATED ELSE REJECTED

\* the early return of the sample-size check
GateFields(hypothesis, n_a, n_b) ==
    [hypothesis_id |-> hypothesis.hypothesis_id,
     status |-> NEEDS_MORE_DATA,
     confidence_score |-> 300000,
     statistical_test |-> NoneStr,
     p_value |-> None,
     effect_size |-> None,
     supporting_metrics |-> NoMetrics,
     verdict |-> [text |-> "Insufficient sample size", a |-> n_a, b |-> n_b]]

\* the return after the test
TestFields(hypothesis, p_value, effect_size, n_a, n_b) ==
    [hypothesis_id |-> hypothesis.hypothesis_id,
     status |-> status_of(p_value, effect_size),
     confidence_score |->
         Round(confidence_score(p_value, effect_size, n_a, n_b), 3),
     statistical_test |-> "independent t-test",
     p_value |-> Round(p_value, 4),
     effect_size |-> Round(effect_size, 3),
     supporting_metrics |-> [sample_size_a |-> n_a, sample_size_b |-> n_b],
     verdict |-> [text |-> IF status_of(p_value, effect_size) = VALIDATED
                           THEN "Hypothesis validated"
                           ELSE "Hypothesis rejected",
                  a |-> Round(p_value, 3), b |-> Round(effect_size, 2)]]

\* mutant: the except branch returns the confidence of the sample-size check
ExceptFields_Gate(hypothesis, message) ==
    [hypothesis_id |-> hypothesis.hypothesis_id,
     status |-> NEEDS_MORE_DATA,
     confidence_score |-> 300000,
     statistical_test |-> NoneStr,
     p_value |-> None,
     effect_size |-> None,
     supporting_metrics |-> NoMetrics,
     verdict |-> [text |-> message, a |-> None, b |-> None]]

\* the return of the except branch
ExceptFields(hypothesis, message) ==
    [hypothesis_id |-> hypothesis.hypothesis_id,
     status |-> NEEDS_MORE_DATA,
     confidence_score |-> 0,
     statistical_test |-> NoneStr,
     p_value |-> None,
     effect_size |-> None,
     supporting_metrics |-> NoMetrics,
     verdict |-> [text |-> message, a |-> None, b |-> None]]

\* the body of the try block: raised is "None" when it returns
TryValidate(hypothesis, d) ==
    IF PartitionRaises(hypothesis, d)
    THEN [raised |-> "Validation failed: KeyError segment_dimension",
          path |-> "except",
          fields |-> ExceptFields(hypothesis, "")]
    ELSE
    LET n_a == LenGroupA(hypothesis, d)
        n_b == LenGroupB(hypothesis, d)
    IN  IF SampleTooSmall(n_a, n_b)
        THEN LET r == ValidationResult(GateFields(hypothesis, n_a, n_b))
             IN  [raised |-> IF r.ok THEN NoneStr
                             ELSE "Validation failed: ValidationError",
                  path |-> "gate", fields |-> r.value]
        ELSE IF MetricRaises(hypothesis, d)
        THEN [raised |-> "Validation failed: KeyError metric_to_test",
              path |-> "except",
              fields |-> ExceptFields(hypothesis, "")]
        ELSE
        LET t == TestOutcome(hypothesis, d)
            r == ValidationResult(
                     TestFields(hypothesis, t.p, t.e, n_a, n_b))
        IN  [raised |-> IF r.ok THEN NoneStr
                        ELSE "Validation failed: ValidationError",
             path |-> "test", fields |-> r.value]

\* _validate_hypothesis(hypothesis, df): result is the ValidationResult
\* returned; path, n_a, n_b, p_value and effect_size are the locals of the
\* call (None where the call never computed them)
validate_hypothesis(hypothesis, d) ==
    LET t == TryValidate(hypothesis, d)
        ran == t.path = "test"
        sized == ~PartitionRaises(hypothesis, d)
    IN  [result |-> IF t.raised = NoneStr THEN t.fields
                    ELSE ValidationResult(
                             ExceptFields(hypothesis, t.raised)).value,
         path |-> IF t.raised = NoneStr THEN t.path ELSE "except",
         n_a |-> IF sized THEN LenGroupA(hypothesis, d) ELSE None,
         n_b |-> IF sized THEN LenGroupB(hypothesis, d) ELSE None,
         p_value |-> IF ran THEN TestOutcome(hypothesis, d).p ELSE None,
         effect_size |-> IF ran THEN TestOutcome(hypothesis, d).e ELSE None]

----------------------------------------------------------------------------
(* agents/evaluator_agent.py: _create_insight, _suggest_focus_areas, execute *)

\* columns _create_insight reads by name
InsightColumns == {"revenue", "date", "campaign_name"}

\* df['revenue'], df['date'] or df['campaign_name'] raises KeyError
CreateInsightRaises(d) == ~(InsightColumns \subseteq LoadedColumns(d))

TitleLen == 80

\* hypothesis.statement[:80]
Title(statement) ==
    [text |-> statement.text, len |-> Min(statement.len, TitleLen)]

\* mutant: urgency is high only above 0.9
create_insight_Urgency09(hypothesis, validation, d) ==
    [insight_id |-> <<"insight_", hypothesis.hypothesis_id>>,
     title |-> Title(hypothesis.statement),
     hypothesis |-> hypothesis,
     validation |-> validation,
     impact_score |-> Round(validation.confidence_score * 10, 1),
     category |-> "performance",
     urgency |-> IF validation.confidence_score > 900000
                 THEN "high" ELSE "medium"]

\* _create_insight(hypothesis, validation, df); the revenue estimate and
\* the date window do not enter any decision and are left out
create_insight(hypothesis, validation, d) ==
    [insight_id |-> <<"insight_", hypothesis.hypothesis_id>>,
     title |-> Title(hypothesis.statement),
     hypothesis |-> hypothesis,
     validation |-> validation,
     impact_score |-> Round(validation.confidence_score * 10, 1),
     category |-> "performance",
     urgency |-> IF validation.confidence_score > 800000
                 THEN "high" ELSE "medium"]

\* mutant: everything that is not rejected counts as validated
IsValidated_NotRejected(result) == result.status # REJECTED

\* if result.status == HypothesisStatus.VALIDATED
IsValidated(result) == result.status = VALIDATED

RECURSIVE ForEachHypothesis(_, _, _)
\* the for loop of execute over the remaining hypotheses; the loop ends
\* with raised set when _create_insight raises, as nothing catches it
ForEachHypothesis(hypotheses, d, acc) ==
    IF hypotheses = <<>> \/ acc.raised # NoneStr THEN acc
    ELSE
    LET hypothesis == Head(hypotheses)
        result == validate_hypothesis(hypothesis, d).result
    IN  IF IsValidated(result) /\ CreateInsightRaises(d)
        THEN [acc EXCEPT !.raised = "KeyError"]
        ELSE
        ForEachHypothesis(Tail(hypotheses), d,
          [raised |-> NoneStr,
           validation_results |-> Append(acc.validation_results, result),
           validated_insights |->
               IF IsValidated(result)
               THEN Append(acc.validated_insights,
                           create_insight(hypothesis, result, d))
               ELSE acc.validated_insights,
           rejected_hypotheses |->
               IF IsValidated(result)
               THEN acc.rejected_hypotheses
               ELSE Append(acc.rejected_hypotheses,
                           hypothesis.hypothesis_id)])

\* rejected_count > len(validation_results) / 2
suggest_focus_areas(validation_results) ==
    LET rejected_count ==
            Len(SelectSeq(validation_results, LAMBDA r : r.status = REJECTED))
    IN  IF 2 * rejected_count > Len(validation_results)
        THEN <<"Consider different analytical dimensions",
               "Look for interaction effects between variables">>
        ELSE <<>>

\* mutant: `<=` for `<`
NeedsReplan_Le(num_validated) == num_validated <= 2

\* needs_replan = num_validated < 2
NeedsReplan(num_validated) == num_validated < 2

NoReason == [text |-> NoneStr, num |-> None]

\* f"Only {num_validated} hypothesis validated. Need different ..."
ReplanReason(num_validated) ==
    [text |-> "Only {num_validated} hypothesis validated. Need different analytical approach.",
     num |-> num_validated]

NoLists ==
    [raised |-> NoneStr, validation_results |-> <<>>,
     validated_insights |-> <<>>, rejected_hypotheses |-> <<>>]

\* the exception EvaluatorAgent.execute leaves with ("None" when it
\* returns): the load of line 45 and the _create_insight of line 57 are
\* outside every try block
EvaluatorRaises(hypotheses, d) ==
    IF LoadRaises(d) # NoneStr THEN LoadRaises(d)
    ELSE ForEachHypothesis(hypotheses, d, NoLists).raised

\* EvaluatorAgent.execute(hypotheses, data_file_path), when it returns
EvaluatorExecute(hypotheses, d) ==
    LET lists == ForEachHypothesis(hypotheses, d, NoLists)
        num_validated == Len(lists.validated_insights)
        needs_replan == NeedsReplan(num_validated)
    IN  [validation_results |-> lists.validation_results,
         validated_insights |-> lists.validated_insights,
         rejected_hypotheses |-> lists.rejected_hypotheses,
         needs_replan |-> needs_replan,
         replan_reason |-> IF needs_replan THEN ReplanReason(num_validated)
                           ELSE NoReason,
         suggested_focus_areas |->
             suggest_focus_areas(lists.validation_results)]

----------------------------------------------------------------------------
(* The other agents: what they return and the exceptions they leave with *)

\* a text-generation response as the agent's parser sees it: parsed is
\* FALSE when the call failed or no JSON with the required keys came back
LLMResponse(parsed, items) == [parsed |-> parsed, items |-> items]

NoResponse == LLMResponse(FALSE, <<>>)

\* columns calculate_metrics, get_performance_by_dimension, execute and
\* _detect_anomalies of the data agent read by name
DataAgentColumns ==
    {"date", "campaign_name", "creative_type", "platform", "country",
     "spend", "revenue", "impressions", "clicks", "purchases", "roas", "ctr"}

\* DataAgent.execute: "None" when it returns, else the exception
DataAgentRaises(d) ==
    IF LoadRaises(d) # NoneStr THEN LoadRaises(d)
    ELSE IF DataAgentColumns \subseteq LoadedColumns(d) THEN NoneStr
    ELSE "KeyError"

\* DataSummary(total_rows=len(df), ...)
DataAgentSummary(d) == [total_rows |-> LenDf(d)]

\* PlannerAgent.execute: _parse_json_response and _validate_output raise
\* ValueError
PlannerRaises(r) == IF r.parsed THEN NoneStr ELSE "ValueError"

\* InsightAgent.execute: the average confidence that is logged divides by
\* len(hypotheses)
InsightAgentRaises_EmptyOk(r) == IF ~r.parsed THEN "ValueError" ELSE NoneStr

InsightAgentRaises(r) ==
    IF ~r.parsed THEN "ValueError"
    ELSE IF Len(r.items) = 0 THEN "ZeroDivisionError"
    ELSE NoneStr

\* columns get_performance_by_dimension and _get_top_performers read
CreativeColumns ==
    {"creative_type", "platform", "creative_message", "spend", "revenue",
     "impressions", "clicks", "purchases", "roas", "ctr"}

\* priority_score: float = Field(..., ge=0.0, le=10.0)
PriorityInRange(v) == 0 <= v /\ v <= 10 * One

\* CreativeGeneratorAgent.execute: "None" when it returns, else the
\* exception; except ValidationError turns a schema failure into
\* ValueError, and nothing catches the division by len(recommendations)
\* of the logged average priority. accepted says whether the schema takes
\* the overall_creative_performance the agent builds: the field is
\* declared Dict[str, float] and is given the ROAS-by-type dict, the name
\* of the best segment and the fatigue flag, and what the validation
\* library makes of them is not decided by this repository
CreativeGeneratorRaises(r, d, accepted) ==
    IF LoadRaises(d) # NoneStr THEN LoadRaises(d)
    ELSE IF ~(CreativeColumns \subseteq LoadedColumns(d)) THEN "KeyError"
    ELSE IF ~r.parsed THEN "ValueError"
    ELSE IF \E i \in 1..Len(r.items) :
                ~PriorityInRange(r.items[i].priority_score)
    THEN "ValueError"
    ELSE IF ~accepted THEN "ValueError"
    ELSE IF Len(r.items) = 0 THEN "ZeroDivisionError"
    ELSE NoneStr

----------------------------------------------------------------------------
(* workflows/main_workflow.py: helpers of execute *)

\* mutant: `<` for `<=`
LoopCondition_Lt(it, maxr) == it < maxr

\* while iteration <= self.max_replans
LoopCondition(it, maxr) == it <= maxr

\* mutant: the first pass is always the last
ShouldReplan_Never(needs_replan, it, maxr) == FALSE

\* mutant: `<=` for `<`
ShouldReplan_Le(needs_replan, it, maxr) == needs_replan /\ it <= maxr

\* mutant: `or` for `and`
ShouldReplan_Or(needs_replan, it, maxr) == needs_replan \/ it < maxr

\* if evaluator_output.needs_replan and iteration < self.max_replans
ShouldReplan(needs_replan, it, maxr) == needs_replan /\ it < maxr

\* mutant: the rate is cut to 2 decimals, not rounded
SuccessRate_Truncated(validation_results) ==
    LET total_hypotheses == Len(validation_results)
        validated_count ==
            Len(SelectSeq(validation_results, LAMBDA r : r.status = VALIDATED))
    IN  IF total_hypotheses > 0
        THEN 10000 * ((validated_count * 100) \div total_hypotheses)
        ELSE 0

\* validated_count / total_hypotheses if total_hypotheses > 0 else 0,
\* then round(success_rate, 2)
SuccessRate(validation_results) ==
    LET total_hypotheses == Len(validation_results)
        validated_count ==
            Len(SelectSeq(validation_results, LAMBDA r : r.status = VALIDATED))
    IN  Round(IF total_hypotheses > 0
              THEN (validated_count * One) \div total_hypotheses
              ELSE 0, 2)

NoTitle == [text |-> <<>>, len |-> 0]
NoAction == <<>>

\* mutant: the last maximal element
TopInsight_Last(insights) ==
    insights[CHOOSE i \in 1..Len(insights) :
        /\ \A j \in 1..Len(insights) :
              insights[j].impact_score <= insights[i].impact_score
        /\ \A j \in (i + 1)..Len(insights) :
              insights[j].impact_score < insights[i].impact_score]

\* max(insights, key=lambda x: x.impact_score): the first maximal element
TopInsight(insights) ==
    insights[CHOOSE i \in 1..Len(insights) :
        /\ \A j \in 1..Len(insights) :
              insights[j].impact_score <= insights[i].impact_score
        /\ \A j \in 1..(i - 1) :
              insights[j].impact_score < insights[i].impact_score]

\* max(recommendations, key=lambda x: x.priority_score)
TopRecommendation(recommendations) ==
    recommendations[CHOOSE i \in 1..Len(recommendations) :
        /\ \A j \in 1..Len(recommendations) :
              recommendations[j].priority_score
                  <= recommendations[i].priority_score
        /\ \A j \in 1..(i - 1) :
              recommendations[j].priority_score
                  < recommendations[i].priority_score]

\* _generate_executive_summary(insights, creative_analysis): the text with
\* the values its placeholders were filled with
generate_executive_summary(insights, analysis) ==
    IF insights = <<>>
    THEN [text |-> "No significant insights found in the analysis.",
          count |-> None,
          top_finding |-> NoTitle,
          primary_recommendation |-> NoAction]
    ELSE IF analysis.recommendations = <<>>
    THEN [text |-> "Analysis identified {n} key insights. Top finding: {title}. ",
          count |-> Len(insights),
          top_finding |-> TopInsight(insights).title,
          primary_recommendation |-> NoAction]
    ELSE [text |-> "Analysis identified {n} key insights. Top finding: {title}. Primary recommendation: {action}.",
          count |-> Len(insights),
          top_finding |-> TopInsight(insights).title,
          primary_recommendation |->
              TopRecommendation(analysis.recommendations).action]

\* mutant: the insights are counted as the hypotheses tested
create_final_report_InsightCount(summary, insights, analysis, iterations, results) ==
    [executive_summary |-> generate_executive_summary(insights, analysis),
     key_insights |-> insights,
     creative_recommendations |-> analysis.recommendations,
     data_summary |-> summary,
     total_hypotheses_tested |-> Len(insights),
     validation_success_rate |-> SuccessRate(results),
     total_iterations |-> iterations]

\* _create_final_report(...)
create_final_report(summary, insights, analysis, iterations, results) ==
    [executive_summary |-> generate_executive_summary(insights, analysis),
     key_insights |-> insights,
     creative_recommendations |-> analysis.recommendations,
     data_summary |-> summary,
     total_hypotheses_tested |-> Len(results),
     validation_success_rate |-> SuccessRate(results),
     total_iterations |-> iterations]

----------------------------------------------------------------------------
(* Inputs: data files, hypotheses and recommendations the calls draw from *)

\* lengths of the statements the hypotheses carry
StatementLen(id) == IF id = "hyp_002" THEN 120 ELSE 64

Hyp(id, metric, dimension, value) ==
    [hypothesis_id |-> id,
     statement |-> [text |-> <<"statement", id>>, len |-> StatementLen(id)],
     metric_to_test |-> metric,
     segment_dimension |-> dimension, segment_value |-> value]

HImage == Hyp("hyp_001", "roas", "creative_type", "Image")
HVideo == Hyp("hyp_002", "roas", "creative_type", "Video")
HTime == Hyp("hyp_003", "roas", NoneStr, NoneStr)
HEmptyValue == Hyp("hyp_004", "ctr", "creative_type", "")
HBadDimension == Hyp("hyp_005", "roas", "audience_age", "18-24")
HBadMetric == Hyp("hyp_006", "conversion_rate", "creative_type", "Image")

HypPool == {HImage, HVideo, HTime, HEmptyValue, HBadDimension, HBadMetric}

SeqsUpTo(S, n) == UNION {[1..k -> S] : k \in 0..n}

HypLists == SeqsUpTo(HypPool, MaxHyps)

Outcome(p, e) == [p |-> p, e |-> e]

Dataset(n_image, n_video, seg, time) ==
    [blocks |-> <<[value |-> "Image", n |-> n_image],
                  [value |-> "Video", n |-> n_video]>>,
     seg_test |-> [v \in SegmentValues |-> seg],
     time_test |-> time,
     columns |-> Columns,
     readable |-> TRUE]

\* the same file without one of its columns
WithoutColumn(d, column) == [d EXCEPT !.columns = d.columns \ {column}]

\* the same path with no readable CSV behind it
Unreadable(d) == [d EXCEPT !.readable = FALSE]

Strong == Outcome(18000, 520000)
Weak == Outcome(500000, 100000)

\* p-values and effect sizes around every threshold and rounding step
PValues == {0, 18000, 49940, 49960, 50000, 50040, 99990, 100000, 500000, One}
EValues == {0, 299600, 300000, 300400, 500000, 500400, 520000, 1300000}

\* (rows with creative_type Image, rows with creative_type Video)
SizePairs == {<<450, 420>>, <<29, 30>>, <<30, 29>>, <<30, 30>>,
              <<100, 150>>, <<101, 101>>, <<20, 100>>}

\* data files of the stand-alone evaluator calls: complete files, and
\* files that cannot be read or lack a column
\* a file whose Image and Video rows alternate in date order
Interleaved(seg, time) ==
    [Dataset(40, 35, seg, time) EXCEPT
        !.blocks = <<[value |-> "Image", n |-> 40],
                     [value |-> "Video", n |-> 35],
                     [value |-> "Image", n |-> 31],
                     [value |-> "Video", n |-> 3]>>]

DatasetsEval ==
    {Dataset(s[1], s[2], Outcome(p, e), t) :
        s \in SizePairs, p \in PValues, e \in EValues, t \in {Strong, Weak}}
    \cup {Interleaved(seg, t) : seg \in {Strong, Weak}, t \in {Strong, Weak}}
    \cup {Unreadable(Dataset(450, 420, Strong, Strong))}
    \cup {WithoutColumn(Dataset(450, 420, seg, Strong), c) :
              seg \in {Strong, Weak},
              c \in {"revenue", "campaign_name", "roas", "creative_type",
                     "spend"}}

\* data files of the orchestrated runs
Datasets ==
    {Dataset(s[1], s[2], seg, t) :
        s \in {<<450, 420>>, <<29, 40>>}, seg \in {Strong, Weak},
        t \in {Strong, Weak}}
    \cup {Dataset(29, 30, Strong, Strong),
          Unreadable(Dataset(450, 420, Strong, Strong)),
          WithoutColumn(Dataset(450, 420, Strong, Strong),
                        "creative_message")}

Rec(id, priority) ==
    [recommendation_id |-> id, action |-> <<"action", id>>,
     priority_score |-> priority]

RecLists == {<<Rec("rec_001", 9200000)>>,
             <<Rec("rec_001", 7000000), Rec("rec_002", 9200000)>>,
             <<Rec("rec_001", 9200000), Rec("rec_002", 9200000)>>}

\* responses of the text-generation calls, as each agent parses them
PlannerResponses ==
    {LLMResponse(TRUE, <<>>), LLMResponse(FALSE, <<>>)}

\* hypotheses the insight agent of an orchestrated run comes back with
OrchPool == {HImage, HTime, HBadDimension}

InsightResponses ==
    {LLMResponse(TRUE, h) : h \in SeqsUpTo(OrchPool, MaxHyps)}
    \cup {LLMResponse(FALSE, <<>>)}

CreativeResponses ==
    {LLMResponse(TRUE, r) : r \in RecLists}
    \cup {LLMResponse(TRUE, <<>>),
          LLMResponse(TRUE, <<Rec("rec_001", 11 * One)>>),
          LLMResponse(FALSE, <<>>)}

\* validation results of a final iteration: `validated` validated ones,
\* then `others` rejected and needs_more_data ones in turn
ResultsOf(validated, others) ==
    [i \in 1..(validated + others) |->
        [hypothesis_id |-> <<"hyp", i>>,
         status |-> IF i <= validated THEN VALIDATED
                    ELSE IF (i - validated) % 2 = 1 THEN REJECTED
                    ELSE NEEDS_MORE_DATA]]

\* how the impact scores of the insights of a report run along the list
ImpactPatterns == {"flat", "rising", "falling", "twin_peaks"}

ImpactOf(pattern, i) ==
    IF pattern = "flat" THEN 8500000
    ELSE IF pattern = "rising" THEN 5000000 + 100000 * i
    ELSE IF pattern = "falling" THEN 9900000 - 100000 * i
    ELSE IF i % 2 = 0 THEN 9000000 ELSE 6000000

\* the insights of the validated results, one each, in order
InsightsOf(validated, pattern) ==
    [i \in 1..validated |->
        [insight_id |-> <<"insight", i>>,
         title |-> [text |-> <<"statement", i>>, len |-> 64],
         impact_score |-> ImpactOf(pattern, i)]]

\* main.py: AgenticOrchestrator(..., max_replans=2)
MainMaxReplans == 2

\* main.py: the files written after execute returned
OutputFiles == {"insights.json", "creatives.json", "report_full.json",
                "report.md"}

\* confidence scores handed to the ValidationResult constructor directly
ScoreProbes == {0 - 100000, 0, 300000, 850000, 999600, One, One + 1, 1500000}

----------------------------------------------------------------------------
(* Values of locals that are not assigned yet *)

NoSummary == [total_rows |-> None]
NoPlan == [query |-> NoneStr]
NoHypotheses == <<>>
NoOutput ==
    [validation_results |-> <<>>, validated_insights |-> <<>>,
     rejected_hypotheses |-> <<>>, needs_replan |-> FALSE,
     replan_reason |-> NoReason, suggested_focus_areas |-> <<>>]
NoAnalysis == [recommendations |-> <<>>]
NoReport == [total_iterations |-> None]
NoResult == [hypothesis_id |-> NoneStr]
NoTrace == [path |-> NoneStr]
NoGenerate == [max_retries |-> None]
NoConstructed ==
    [score |-> None, ok |-> FALSE, value |-> [hypothesis_id |-> NoneStr]]

----------------------------------------------------------------------------
(* AgenticOrchestrator.execute, one action per step *)

Init ==
    /\ df \in Datasets
    /\ max_replans \in (0 - 1)..MaxReplansBound
    /\ pc = "while"
    /\ iteration = 0
    /\ data_summary = NoSummary
    /\ task_plan = NoPlan
    /\ insight_output = NoHypotheses
    /\ evaluator_output = NoOutput
    /\ creative_analysis = NoAnalysis
    /\ report = NoReport
    /\ error = NoneStr
    /\ history = <<>>
    /\ calls = <<>>
    /\ response = NoResponse
    /\ files = {}
    /\ exit_status = None
    /\ logged_error = NoneStr
    /\ vhyp = NoResult
    /\ vresult = NoResult
    /\ vtrace = NoTrace
    /\ constructed = NoConstructed
    /\ llm = NoGenerate

\* the arguments of execute
Query == "query"
DataFilePath == "data/raw/fb_ads_data.csv"

\* focus_dimension: str = "all dimensions"
DefaultFocus == "all dimensions"

\* the agent whose return value each local of execute is assigned from
Producer ==
    [data_summary |-> "data_agent", task_plan |-> "planner",
     insight_output |-> "insight_agent", evaluator_output |-> "evaluator"]

\* the pass in which a local of execute was last assigned: the pass of the
\* last call of its producer that returned (0 when it is unbound)
AssignedIn(name) ==
    LET made == {k \in 1..Len(calls) :
                    calls[k].agent = Producer[name] /\ ~calls[k].raised}
    IN  IF made = {} THEN 0
        ELSE calls[CHOOSE k \in made : \A m \in made : m <= k].iteration

\* a local of execute handed to an agent, or a value computed from it
Local(name) == [name |-> name, assigned_in |-> AssignedIn(name)]

\* mutant: a restarted pass focuses on what the last evaluation suggested
FocusDimension_Suggested(previous) ==
    IF previous.suggested_focus_areas # <<>>
    THEN previous.suggested_focus_areas[1] ELSE DefaultFocus

\* the focus dimension of the insight agent's call: execute passes none,
\* whatever the previous evaluation returned, so the default applies
FocusDimension(previous) == DefaultFocus

\* the arguments execute calls an agent with (None for a parameter the
\* agent does not have)
AgentArgs(agent) ==
    [query |-> IF agent \in {"planner", "insight_agent"}
               THEN Query ELSE NoneStr,
     data_file_path |->
         IF agent \in {"data_agent", "evaluator", "creative_generator"}
         THEN DataFilePath ELSE NoneStr,
     focus_dimension |-> IF agent = "insight_agent"
                         THEN FocusDimension(evaluator_output) ELSE NoneStr,
     locals |->
         CASE agent = "data_agent" -> {}
           [] agent = "planner" -> {Local("data_summary")}
           [] agent = "insight_agent" -> {Local("data_summary")}
           [] agent = "evaluator" -> {Local("insight_output")}
           [] agent = "creative_generator" -> {Local("evaluator_output")}]

\* the call of an agent that returned
Called(agent) ==
    Append(calls, [agent |-> agent, iteration |-> iteration,
                   raised |-> FALSE, args |-> AgentArgs(agent)])

\* the call of an agent that raised
CalledRaising(agent) ==
    Append(calls, [agent |-> agent, iteration |-> iteration,
                   raised |-> TRUE, args |-> AgentArgs(agent)])

\* mutant: the loop body catches the exception and starts the next pass
OnException_Retry(position) == "while"

\* execute has no try block: an exception raised at any position of the
\* loop body leaves execute
OnException(position) == "raised"

\* the exception e of the agent called at pc leaves execute
Propagate(e) ==
    /\ calls' = CalledRaising(pc)
    /\ error' = e
    /\ pc' = OnException(pc)

\* the agent called at pc returned
Returned(next) ==
    /\ calls' = Called(pc)
    /\ error' = error
    /\ pc' = next

\* what the history variable keeps of one evaluation pass
PassRecord(output) ==
    [needs_replan |-> output.needs_replan,
     num_validated |-> Len(output.validated_insights),
     validated_ids |->
         [i \in 1..Len(output.validated_insights) |->
             output.validated_insights[i].hypothesis.hypothesis_id]]

\* the file an agent finds behind data_file_path when it loads it: every
\* agent that needs the data reads the path again, and the file may have
\* been replaced since the last read
FileAtRead(d) ==
    IF d.readable /\ d.columns = Columns
    THEN {d, Unreadable(d), WithoutColumn(d, "revenue")}
    ELSE {d}

\* mutant: the data summary of the first pass is kept for the later ones
LoopBodyStart_Cached(it) == IF it > 1 THEN "planner" ELSE "data_agent"

\* the first agent of the loop body, whatever the pass
LoopBodyStart(it) == "data_agent"

\* while iteration <= self.max_replans: iteration += 1
WhileEnter ==
    /\ pc = "while"
    /\ LoopCondition(iteration, max_replans)
    /\ iteration' = iteration + 1
    /\ pc' = LoopBodyStart(iteration + 1)
    /\ UNCHANGED <<df, max_replans, data_summary, task_plan, insight_output,
                   evaluator_output, creative_analysis, report, error,
                   history, calls, response>>
    /\ UNCHANGED main_vars
    /\ UNCHANGED probe_vars
    /\ UNCHANGED llm

\* raise RuntimeError("Failed to generate satisfactory insights ...")
RaiseExhausted ==
    /\ pc = "while"
    /\ ~LoopCondition(iteration, max_replans)
    /\ pc' = "raised"
    /\ error' = "RuntimeError"
    /\ UNCHANGED <<df, max_replans, iteration, data_summary, task_plan,
                   insight_output, evaluator_output, creative_analysis,
                   report, history, calls, response>>
    /\ UNCHANGED main_vars
    /\ UNCHANGED probe_vars
    /\ UNCHANGED llm

\* data_summary = self.data_agent.execute(data_file_path=data_file_path)
DataAgentExecute ==
    /\ pc = "data_agent"
    /\ \E d \in FileAtRead(df) :
          /\ df' = d
          /\ IF DataAgentRaises(d) = NoneStr
             THEN /\ data_summary' = DataAgentSummary(d)
                  /\ Returned("planner")
             ELSE /\ data_summary' = data_summary
                  /\ Propagate(DataAgentRaises(d))
    /\ UNCHANGED <<max_replans, iteration, task_plan, insight_output,
                   evaluator_output, creative_analysis, report, history,
                   response>>
    /\ UNCHANGED main_vars
    /\ UNCHANGED probe_vars
    /\ UNCHANGED llm

\* task_plan = self.planner.execute(query=query, data_context=data_context)
PlannerExecute ==
    /\ pc = "planner"
    /\ \E r \in PlannerResponses :
          /\ response' = r
          /\ IF PlannerRaises(r) = NoneStr
             THEN /\ task_plan' = [query |-> Query]
                  /\ Returned("insight_agent")
             ELSE /\ task_plan' = task_plan
                  /\ Propagate(PlannerRaises(r))
    /\ UNCHANGED <<df, max_replans, iteration, data_summary, insight_output,
                   evaluator_output, creative_analysis, report, history>>
    /\ UNCHANGED main_vars
    /\ UNCHANGED probe_vars
    /\ UNCHANGED llm

\* insight_output = self.insight_agent.execute(...)
InsightAgentExecute ==
    /\ pc = "insight_agent"
    /\ \E r \in InsightResponses :
          /\ response' = r
          /\ IF InsightAgentRaises(r) = NoneStr
             THEN /\ insight_output' = r.items
                  /\ Returned("evaluator")
             ELSE /\ insight_output' = insight_output
                  /\ Propagate(InsightAgentRaises(r))
    /\ UNCHANGED <<df, max_replans, iteration, data_summary, task_plan,
                   evaluator_output, creative_analysis, report, history>>
    /\ UNCHANGED main_vars
    /\ UNCHANGED probe_vars
    /\ UNCHANGED llm

\* evaluator_output = self.evaluator.execute(hypotheses=..., ...)
EvaluatorAgentExecute ==
    /\ pc = "evaluator"
    /\ \E d \in FileAtRead(df) :
          /\ df' = d
          /\ IF EvaluatorRaises(insight_output, d) = NoneStr
             THEN /\ evaluator_output' = EvaluatorExecute(insight_output, d)
                  /\ history' = Append(history,
                        PassRecord(evaluator_output'))
                  /\ Returned("check_replan")
             ELSE /\ evaluator_output' = evaluator_output
                  /\ history' = history
                  /\ Propagate(EvaluatorRaises(insight_output, d))
    /\ UNCHANGED <<max_replans, iteration, data_summary, task_plan,
                   insight_output, creative_analysis, report, response>>
    /\ UNCHANGED main_vars
    /\ UNCHANGED probe_vars
    /\ UNCHANGED llm

\* if evaluator_output.needs_replan and iteration < self.max_replans: continue
CheckReplan ==
    /\ pc = "check_replan"
    /\ pc' = IF ShouldReplan(evaluator_output.needs_replan, iteration,
                             max_replans)
             THEN "while" ELSE "creative_generator"
    /\ UNCHANGED <<df, max_replans, iteration, data_summary, task_plan,
                   insight_output, evaluator_output, creative_analysis,
                   report, error, history, calls, response>>
    /\ UNCHANGED main_vars
    /\ UNCHANGED probe_vars
    /\ UNCHANGED llm

\* creative_analysis = self.creative_generator.execute(...)
CreativeGeneratorExecute ==
    /\ pc = "creative_generator"
    /\ \E d \in FileAtRead(df), r \in CreativeResponses,
          accepted \in BOOLEAN :
          /\ df' = d
          /\ response' = r
          /\ IF CreativeGeneratorRaises(r, d, accepted) = NoneStr
             THEN /\ creative_analysis' = [recommendations |-> r.items]
                  /\ Returned("create_report")
             ELSE /\ creative_analysis' = creative_analysis
                  /\ Propagate(CreativeGeneratorRaises(r, d, accepted))
    /\ UNCHANGED <<max_replans, iteration, data_summary, task_plan,
                   insight_output, evaluator_output, report, history>>
    /\ UNCHANGED main_vars
    /\ UNCHANGED probe_vars
    /\ UNCHANGED llm

\* report = self._create_final_report(...); return report
ReturnReport ==
    /\ pc = "create_report"
    /\ report' = create_final_report(data_summary,
                     evaluator_output.validated_insights, creative_analysis,
                     iteration, evaluator_output.validation_results)
    /\ pc' = "returned"
    /\ UNCHANGED <<df, max_replans, iteration, data_summary, task_plan,
                   insight_output, evaluator_output, creative_analysis,
                   error, history, calls, response>>
    /\ UNCHANGED main_vars
    /\ UNCHANGED probe_vars
    /\ UNCHANGED llm

\* main.py, after execute returned: the four output files are written and
\* main returns
MainSaveOutputs ==
    /\ pc = "returned"
    /\ max_replans = MainMaxReplans
    /\ files' = files \cup OutputFiles
    /\ exit_status' = 0
    /\ pc' = "exited"
    /\ UNCHANGED <<df, max_replans, iteration, data_summary, task_plan,
                   insight_output, evaluator_output, creative_analysis,
                   report, error, history, calls, response, logged_error>>
    /\ UNCHANGED probe_vars
    /\ UNCHANGED llm

\* main.py, except Exception as e: logger.error(...); sys.exit(1)
MainExceptExit ==
    /\ pc = "raised"
    /\ max_replans = MainMaxReplans
    /\ logged_error' = error
    /\ exit_status' = 1
    /\ pc' = "exited"
    /\ UNCHANGED <<df, max_replans, iteration, data_summary, task_plan,
                   insight_output, evaluator_output, creative_analysis,
                   report, error, history, calls, response, files>>
    /\ UNCHANGED probe_vars
    /\ UNCHANGED llm

Next ==
    \/ WhileEnter
    \/ RaiseExhausted
    \/ DataAgentExecute
    \/ PlannerExecute
    \/ InsightAgentExecute
    \/ EvaluatorAgentExecute
    \/ CheckReplan
    \/ CreativeGeneratorExecute
    \/ ReturnReport
    \/ MainSaveOutputs
    \/ MainExceptExit

Spec == Init /\ [][Next]_vars

----------------------------------------------------------------------------
(* Stand-alone calls of the evaluator and of the ValidationResult schema *)

InitEval ==
    /\ df \in DatasetsEval
    /\ max_replans = 2
    /\ pc = "call"
    /\ iteration = 0
    /\ data_summary = NoSummary
    /\ task_plan = NoPlan
    /\ insight_output = NoHypotheses
    /\ evaluator_output = NoOutput
    /\ creative_analysis = NoAnalysis
    /\ report = NoReport
    /\ error = NoneStr
    /\ history = <<>>
    /\ calls = <<>>
    /\ response = NoResponse
    /\ files = {}
    /\ exit_status = None
    /\ logged_error = NoneStr
    /\ vhyp = NoResult
    /\ vresult = NoResult
    /\ vtrace = NoTrace
    /\ constructed = NoConstructed
    /\ llm = NoGenerate

\* self._validate_hypothesis(hypothesis, df), df loaded from the file
CallValidateHypothesis ==
    /\ pc = "call"
    /\ LoadRaises(df) = NoneStr
    /\ \E hypothesis \in HypPool :
          LET v == validate_hypothesis(hypothesis, df)
          IN  /\ vhyp' = hypothesis
              /\ vresult' = v.result
              /\ vtrace' = [path |-> v.path, n_a |-> v.n_a, n_b |-> v.n_b,
                            p_value |-> v.p_value,
                            effect_size |-> v.effect_size,
                            group_a |-> IF v.n_a = None THEN {}
                                        ELSE GroupA(hypothesis, df),
                            group_b |-> IF v.n_a = None THEN {}
                                        ELSE GroupB(hypothesis, df)]
    /\ pc' = "validated_one"
    /\ UNCHANGED <<df, insight_output, evaluator_output, error, constructed>>
    /\ UNCHANGED orch_vars
    /\ UNCHANGED llm
    /\ UNCHANGED main_vars

\* EvaluatorAgent.execute(hypotheses, data_file_path)
CallEvaluatorExecute ==
    /\ pc = "call"
    /\ \E hypotheses \in HypLists :
          /\ insight_output' = hypotheses
          /\ IF EvaluatorRaises(hypotheses, df) = NoneStr
             THEN /\ evaluator_output' = EvaluatorExecute(hypotheses, df)
                  /\ error' = error
                  /\ pc' = "evaluated"
             ELSE /\ evaluator_output' = evaluator_output
                  /\ error' = EvaluatorRaises(hypotheses, df)
                  /\ pc' = "evaluator_raised"
    /\ UNCHANGED <<df, vhyp, vresult, vtrace, constructed>>
    /\ UNCHANGED orch_vars
    /\ UNCHANGED llm
    /\ UNCHANGED main_vars

\* ValidationResult(hypothesis_id="hyp_001", status="validated",
\*                  confidence_score=score, verdict="Test", ...)
CallValidationResult ==
    /\ pc = "call"
    /\ \E score \in ScoreProbes :
          LET r == ValidationResult(
                  [hypothesis_id |-> "hyp_001", status |-> VALIDATED,
                   confidence_score |-> score, statistical_test |-> NoneStr,
                   p_value |-> None, effect_size |-> None,
                   supporting_metrics |-> NoMetrics,
                   verdict |-> [text |-> "Test", a |-> None, b |-> None]])
          IN  constructed' = [score |-> score, ok |-> r.ok, value |-> r.value]
    /\ pc' = "constructed"
    /\ UNCHANGED <<df, insight_output, evaluator_output, error, vhyp,
                   vresult, vtrace>>
    /\ UNCHANGED orch_vars
    /\ UNCHANGED llm
    /\ UNCHANGED main_vars

NextEval ==
    \/ CallValidateHypothesis
    \/ CallEvaluatorExecute
    \/ CallValidationResult

SpecEval == InitEval /\ [][NextEval]_vars

(* utils/llm_client.py: stand-alone calls of LLMClient.generate *)

\* what one chat-completion request of generate can end with: a response,
\* one of the three errors generate retries, or any other exception
TransientErrors == {"RateLimitError", "APIConnectionError", "APIError"}
AttemptOutcomes == {"ok", "Exception"} \cup TransientErrors

\* retry_delay values generate is called with, in seconds (default 2)
RetryDelays == {1, 2}

\* retry_delay after the handler of a transient error has slept: only the
\* RateLimitError handler has `retry_delay *= 2`
NextDelay(kind, retry_delay) ==
    IF kind = "RateLimitError" THEN 2 * retry_delay ELSE retry_delay

InitLLM ==
    /\ df = Unreadable(Dataset(450, 420, Strong, Strong))
    /\ max_replans = 2
    /\ pc = "generate"
    /\ iteration = 0
    /\ data_summary = NoSummary
    /\ task_plan = NoPlan
    /\ insight_output = NoHypotheses
    /\ evaluator_output = NoOutput
    /\ creative_analysis = NoAnalysis
    /\ report = NoReport
    /\ error = NoneStr
    /\ history = <<>>
    /\ calls = <<>>
    /\ response = NoResponse
    /\ files = {}
    /\ exit_status = None
    /\ logged_error = NoneStr
    /\ vhyp = NoResult
    /\ vresult = NoResult
    /\ vtrace = NoTrace
    /\ constructed = NoConstructed
    /\ \E m \in 0..MaxRetriesBound, delay \in RetryDelays :
          llm = [max_retries |-> m, initial_delay |-> delay,
                 retry_delay |-> delay, attempt |-> 0, sleeps |-> <<>>,
                 errors |-> <<>>]

\* one pass of `for attempt in range(max_retries)`: the request, and the
\* handler of what it raised
GenerateAttempt ==
    /\ pc = "generate"
    /\ llm.attempt < llm.max_retries
    /\ \E kind \in AttemptOutcomes :
          IF kind = "ok"
          THEN /\ llm' = [llm EXCEPT !.attempt = @ + 1]
               /\ pc' = "generated"
               /\ error' = error
          ELSE IF kind \in TransientErrors
                  /\ llm.attempt < llm.max_retries - 1
          THEN /\ llm' = [llm EXCEPT
                             !.attempt = @ + 1,
                             !.errors = Append(@, kind),
                             !.sleeps = Append(@, llm.retry_delay),
                             !.retry_delay = NextDelay(kind, @)]
               /\ pc' = "generate"
               /\ error' = error
          ELSE /\ llm' = [llm EXCEPT !.attempt = @ + 1,
                                     !.errors = Append(@, kind)]
               /\ pc' = "generate_raised"
               /\ error' = kind
    /\ UNCHANGED <<df, insight_output, evaluator_output>>
    /\ UNCHANGED <<max_replans, iteration, data_summary, task_plan,
                   creative_analysis, report, history, calls, response>>
    /\ UNCHANGED main_vars
    /\ UNCHANGED probe_vars

\* raise Exception("Max retries exceeded"), after a loop that ended
\* without returning or raising
GenerateExhausted ==
    /\ pc = "generate"
    /\ llm.attempt >= llm.max_retries
    /\ pc' = "generate_raised"
    /\ error' = "Max retries exceeded"
    /\ UNCHANGED <<df, insight_output, evaluator_output, llm>>
    /\ UNCHANGED <<max_replans, iteration, data_summary, task_plan,
                   creative_analysis, report, history, calls, response>>
    /\ UNCHANGED main_vars
    /\ UNCHANGED probe_vars

NextLLM ==
    \/ GenerateAttempt
    \/ GenerateExhausted

SpecLLM == InitLLM /\ [][NextLLM]_vars

(* Stand-alone calls of _create_final_report *)

InitReport ==
    /\ df = Dataset(450, 420, Strong, Strong)
    /\ max_replans = 2
    /\ pc = "call"
    /\ iteration = 0
    /\ data_summary = NoSummary
    /\ task_plan = NoPlan
    /\ insight_output = NoHypotheses
    /\ evaluator_output = NoOutput
    /\ creative_analysis = NoAnalysis
    /\ report = NoReport
    /\ error = NoneStr
    /\ history = <<>>
    /\ calls = <<>>
    /\ response = NoResponse
    /\ files = {}
    /\ exit_status = None
    /\ logged_error = NoneStr
    /\ vhyp = NoResult
    /\ vresult = NoResult
    /\ vtrace = NoTrace
    /\ constructed = NoConstructed
    /\ llm = NoGenerate

\* self._create_final_report(query, data_summary, insights,
\*     creative_analysis, iterations, validation_results)
CallCreateFinalReport ==
    /\ pc = "call"
    /\ \E validated \in 0..MaxResults, others \in 0..MaxResults,
          pattern \in ImpactPatterns, recommendations \in RecLists \cup {<<>>},
          iterations \in 1..2 :
          /\ validated + others <= MaxResults
          /\ evaluator_output' =
                 [NoOutput EXCEPT
                     !.validation_results = ResultsOf(validated, others),
                     !.validated_insights = InsightsOf(validated, pattern)]
          /\ creative_analysis' = [recommendations |-> recommendations]
          /\ iteration' = iterations
          /\ report' = create_final_report(data_summary,
                           InsightsOf(validated, pattern),
                           [recommendations |-> recommendations],
                           iterations, ResultsOf(validated, others))
    /\ pc' = "reported"
    /\ UNCHANGED <<df, max_replans, data_summary, task_plan, insight_output,
                   error, history, calls, response>>
    /\ UNCHANGED main_vars
    /\ UNCHANGED probe_vars
    /\ UNCHANGED llm

NextReport == CallCreateFinalReport

SpecReport == InitReport /\ [][NextReport]_vars

----------------------------------------------------------------------------
(* Properties of the orchestration loop (checked under Spec) *)

Recommended ==
    \E i \in 1..Len(calls) : calls[i].agent = "creative_generator"

RecommendedIn(it) ==
    \E i \in 1..Len(calls) :
        calls[i].agent = "creative_generator" /\ calls[i].iteration = it

AfterEvaluation == {"creative_generator", "create_report", "returned"}

\* C1: after each evaluation step the loop restarts at data loading, with
\* no recommendation call in that iteration, exactly when needs_replan is
\* true and iteration < max_replans; in every other case the same
\* iteration goes on to the recommendation generator, also when
\* needs_replan is still true.
C1_ReplanIffNeededAndBudget ==
    /\ [][pc = "check_replan" =>
            IF evaluator_output.needs_replan /\ iteration < max_replans
            THEN pc' = "while" /\ iteration' = iteration /\ calls' = calls
            ELSE pc' = "creative_generator" /\ iteration' = iteration]_vars
    /\ [][(pc = "while" /\ iteration > 0) =>
            (pc' = "data_agent" /\ iteration' = iteration + 1)]_vars
    /\ [](\A it \in 1..Len(history) :
            (history[it].needs_replan /\ it < max_replans)
                => ~RecommendedIn(it))

\* C1 witness: an iteration was restarted, and the next one goes on to the
\* recommendation generator although needs_replan is still true
C1_Witness ==
    /\ iteration = 2
    /\ pc = "creative_generator"
    /\ evaluator_output.needs_replan
    /\ Len(history) = 2
    /\ history[1].needs_replan

AllPassesEmpty == \A it \in 1..Len(history) : history[it].num_validated = 0

\* C2: with max_replans = 2 and every pass yielding 0 validated insights,
\* execute restarts after the 1st and the 2nd pass, and it is on the 3rd
\* pass that it proceeds to the recommendation generator and returns a
\* report; it never raises the exhaustion error.
C2_ThirdPassProceeds ==
    (max_replans = 2 /\ AllPassesEmpty) =>
        /\ (pc \in AfterEvaluation => iteration = 3)
        /\ (pc = "returned" => report.total_iterations = 3)
        /\ error # "RuntimeError"

----------------------------------------------------------------------------
(* Properties of the evaluator and of the schema (checked under SpecEval) *)

ValidatedResults(results) ==
    SelectSeq(results, LAMBDA r : r.status = VALIDATED)

InUnit(v) == 0 <= v /\ v <= One

\* C4: the EvaluatorOutput has needs_replan = true exactly when fewer than
\* 2 hypotheses were validated in the pass; replan_reason is present
\* exactly when needs_replan is true, and then carries the number of
\* validated hypotheses, which is 0 or 1.
C4_NeedsReplanIffFewerThanTwo ==
    pc = "evaluated" =>
        LET n == Len(ValidatedResults(evaluator_output.validation_results))
        IN  /\ evaluator_output.needs_replan <=> n < 2
            /\ evaluator_output.replan_reason # NoReason
                   <=> evaluator_output.needs_replan
            /\ evaluator_output.needs_replan =>
                   /\ evaluator_output.replan_reason.num = n
                   /\ n \in {0, 1}

\* C4 witness: a pass in which exactly one of two hypotheses was validated
C4_Witness ==
    /\ pc = "evaluated"
    /\ Len(evaluator_output.validation_results) = 2
    /\ Len(ValidatedResults(evaluator_output.validation_results)) = 1
    /\ evaluator_output.needs_replan
    /\ evaluator_output.replan_reason.num = 1

\* C5: the EvaluatorOutput has as many insights as validation results with
\* status validated, and the insights correspond one-to-one, in order, to
\* the validated results, each carrying that result and its hypothesis id.
C5_InsightsMatchValidatedResults ==
    pc = "evaluated" =>
        LET validated ==
                ValidatedResults(evaluator_output.validation_results)
            insights == evaluator_output.validated_insights
        IN  /\ Len(insights) = Len(validated)
            /\ \A i \in 1..Len(insights) :
                  /\ i <= Len(validated)
                  /\ insights[i].validation = validated[i]
                  /\ insights[i].hypothesis.hypothesis_id
                         = validated[i].hypothesis_id

\* C5 witness: a pass with one validated and one needs_more_data result
C5_Witness ==
    /\ pc = "evaluated"
    /\ Len(evaluator_output.validation_results) = 2
    /\ Len(evaluator_output.validated_insights) = 1
    /\ \E i \in 1..2 :
          evaluator_output.validation_results[i].status = NEEDS_MORE_DATA

GroupsTooSmall ==
    /\ vtrace.n_a # None
    /\ (vtrace.n_a < 30 \/ vtrace.n_b < 30)

\* C6: a hypothesis whose group A or group B has fewer than 30 rows gets
\* status needs_more_data with confidence exactly 0.3 and no test name,
\* p-value or effect size, whatever the metric values and metric column.
C6_SampleGate ==
    (pc = "validated_one" /\ GroupsTooSmall) =>
        /\ vresult.status = NEEDS_MORE_DATA
        /\ vresult.confidence_score = 300000
        /\ vresult.statistical_test = NoneStr
        /\ vresult.p_value = None
        /\ vresult.effect_size = None
        /\ vtrace.p_value = None /\ vtrace.effect_size = None

\* C6 witness: group B alone is too small, the metric column does not
\* exist, and the data would have given a significant test
C6_Witness ==
    /\ pc = "validated_one"
    /\ vhyp = HBadMetric
    /\ vtrace.n_a = 30 /\ vtrace.n_b = 29
    /\ df.seg_test["Image"] = Strong
    /\ vresult.status = NEEDS_MORE_DATA

\* C7: when both groups have at least 30 rows and the test was run, the
\* status is validated exactly when the p_value recorded on the result is
\* below 0.05 and the effect_size recorded on it is above 0.3; otherwise
\* it is rejected.
C7_ValidatedIffRecordedValues ==
    (pc = "validated_one" /\ vtrace.path = "test"
        /\ vtrace.n_a >= 30 /\ vtrace.n_b >= 30) =>
        /\ vresult.status = VALIDATED
              <=> (vresult.p_value < 50000 /\ vresult.effect_size > 300000)
        /\ vresult.status # VALIDATED => vresult.status = REJECTED

\* C8: a ValidationResult cannot be constructed with a confidence_score
\* outside [0,1] (1.5 fails), and every result the evaluator returns, on
\* the gate, test and exception paths, has its confidence_score in [0,1].
C8_ConfidenceWithinUnitInterval ==
    /\ pc = "constructed" =>
          /\ constructed.ok <=> InUnit(constructed.score)
          /\ constructed.ok => InUnit(constructed.value.confidence_score)
    /\ pc = "validated_one" => InUnit(vresult.confidence_score)
    /\ pc = "evaluated" =>
          \A i \in 1..Len(evaluator_output.validation_results) :
              InUnit(evaluator_output.validation_results[i].confidence_score)

\* C8 witness: the constructor was given 1.5 and raised
C8_Witness ==
    /\ pc = "constructed"
    /\ constructed.score = 1500000
    /\ ~constructed.ok

\* C9: when a test is run, confidence_score is 0.4*sig + 0.4*eff + 0.2*smp
\* rounded to 3 decimals, with sig 1.0 / 0.5 / 0.0 for p < 0.05 / p < 0.10 /
\* otherwise, eff 1.0 / 0.6 / 0.3 for effect > 0.5 / > 0.3 / otherwise, and
\* smp 1.0 when min(n_A, n_B) > 100 and 0.7 otherwise.
C9_ConfidenceFormula ==
    (pc = "validated_one" /\ vtrace.path = "test") =>
        LET sig == IF vtrace.p_value < 50000 THEN 1000
                   ELSE IF vtrace.p_value < 100000 THEN 500 ELSE 0
            eff == IF vtrace.effect_size > 500000 THEN 1000
                   ELSE IF vtrace.effect_size > 300000 THEN 600 ELSE 300
            smp == IF vtrace.n_a > 100 /\ vtrace.n_b > 100 THEN 1000
                   ELSE 700
        IN  vresult.confidence_score = 400 * sig + 400 * eff + 200 * smp

\* C9 witness: a test with the smaller group of exactly 100 rows, p just
\* under 0.10 and an effect size just over 0.3
C9_Witness ==
    /\ pc = "validated_one"
    /\ vtrace.path = "test"
    /\ vtrace.n_a = 100
    /\ vtrace.p_value = 99990
    /\ vtrace.effect_size = 300400
    /\ vresult.confidence_score = 580000

ScenarioImage ==
    /\ pc = "validated_one"
    /\ vhyp = HImage
    /\ vtrace.path = "test"
    /\ vtrace.n_a = 450 /\ vtrace.n_b = 420
    /\ vtrace.p_value = 18000
    /\ vtrace.effect_size = 520000

\* C10 as stated: roas on creative_type = Image with 450 and 420 rows,
\* p = 0.018 and effect size 0.52 gives status validated and confidence 0.66.
C10_ScenarioConfidence066 ==
    ScenarioImage =>
        vresult.status = VALIDATED /\ vresult.confidence_score = 660000

\* C10 amended: roas on creative_type = Image with 450 and 420 rows,
\* p = 0.018 and effect size 0.52 gives status validated and confidence 1.0.
C10_ScenarioConfidenceOne ==
    ScenarioImage =>
        vresult.status = VALIDATED /\ vresult.confidence_score = One

\* C10 witness: the scenario's call has returned
C10_Witness == ScenarioImage /\ vresult.statistical_test = "independent t-test"

\* the exception message of the try block of _validate_hypothesis for one
\* hypothesis of the batch ("None" when the block returns)
RaisedWhileValidating(i) == TryValidate(insight_output[i], df).raised

\* C11: an exception raised while validating one hypothesis is caught and
\* becomes a needs_more_data result with confidence 0.0 whose verdict
\* carries the exception message; every hypothesis of the batch still gets
\* its result, and each result is the one the hypothesis gets on its own.
C11_ExceptionIsolatedPerHypothesis ==
    pc = "evaluated" =>
        /\ Len(evaluator_output.validation_results) = Len(insight_output)
        /\ \A i \in 1..Len(insight_output) :
              LET r == evaluator_output.validation_results[i]
              IN  /\ r.hypothesis_id = insight_output[i].hypothesis_id
                  /\ r = validate_hypothesis(insight_output[i], df).result
                  /\ RaisedWhileValidating(i) # NoneStr =>
                        /\ r.status = NEEDS_MORE_DATA
                        /\ r.confidence_score = 0
                        /\ r.verdict.text = RaisedWhileValidating(i)
                        /\ r.p_value = None /\ r.effect_size = None

\* C11 witness: the first hypothesis of a batch names a column the file
\* does not have, and the second one is validated all the same
C11_Witness ==
    /\ pc = "evaluated"
    /\ Len(insight_output) = 2
    /\ RaisedWhileValidating(1) # NoneStr
    /\ evaluator_output.validation_results[1].status = NEEDS_MORE_DATA
    /\ evaluator_output.validation_results[1].confidence_score = 0
    /\ evaluator_output.validation_results[2].status = VALIDATED

\* C12: EvaluatorAgent.execute never fails as a whole: for every list of
\* hypotheses and every data file it returns an EvaluatorOutput with one
\* result per hypothesis, and raises nothing to its caller.
C12_ExecuteNeverFails ==
    pc \in {"evaluated", "evaluator_raised"} =>
        /\ pc = "evaluated"
        /\ error = NoneStr
        /\ Len(evaluator_output.validation_results) = Len(insight_output)

----------------------------------------------------------------------------
(* Properties of failing and of successful runs (checked under Spec) *)

\* C15: when an agent call inside execute raises, the run aborts there: no
\* later agent is invoked, nothing is retried or replanned, no FinalReport
\* is constructed, and main writes none of the output files and exits with
\* status 1 after logging the error.
C15_AgentFailureAbortsRun ==
    \A i \in 1..Len(calls) :
        calls[i].raised =>
            /\ i = Len(calls)
            /\ calls[i].iteration = iteration
            /\ pc \in {"raised", "exited"}
            /\ error \notin {NoneStr, "RuntimeError"}
            /\ report = NoReport
            /\ files = {}
            /\ pc = "exited" => (exit_status = 1 /\ logged_error = error)

\* C15 witness: the evaluator of the second pass found the data file gone,
\* and main has exited with status 1
C15_Witness ==
    /\ pc = "exited"
    /\ exit_status = 1
    /\ files = {}
    /\ iteration = 2
    /\ calls[Len(calls)].agent = "evaluator"
    /\ calls[Len(calls)].iteration = 2
    /\ calls[Len(calls)].raised
    /\ logged_error = "FileNotFoundError"

\* the ids of the hypotheses of a list of insights
InsightIds(insights) ==
    [i \in 1..Len(insights) |-> insights[i].hypothesis.hypothesis_id]

\* C16: a successful execute constructs exactly one FinalReport, when the
\* loop ends; its key_insights, creative_recommendations, data_summary and
\* total_hypotheses_tested are those of the final pass, and its
\* total_iterations is the number of passes that were run.
C16_OneReportFromFinalIteration ==
    /\ [][report' # report =>
            (report = NoReport /\ pc = "create_report"
                /\ pc' = "returned")]_vars
    /\ [](pc \in {"returned", "exited"} /\ error = NoneStr =>
            LET final == history[Len(history)]
            IN  /\ report # NoReport
                /\ InsightIds(report.key_insights) = final.validated_ids
                /\ report.total_hypotheses_tested = Len(insight_output)
                /\ report.creative_recommendations = response.items
                /\ report.data_summary = DataAgentSummary(df)
                /\ report.total_iterations = Len(history)
                /\ report.total_iterations = iteration
                /\ calls[Len(calls)].agent = "creative_generator"
                /\ calls[Len(calls)].iteration = Len(history)
                /\ ~calls[Len(calls)].raised)

\* C16 witness: a run of two passes returned; the first pass validated one
\* hypothesis, the final one two, and the report carries those two
C16_Witness ==
    /\ pc = "returned"
    /\ Len(history) = 2
    /\ history[1].num_validated = 1
    /\ Len(report.key_insights) = 2
    /\ report.total_hypotheses_tested = 2
    /\ report.total_iterations = 2

C19_IterationAtMostMaxReplans ==
    max_replans >= 0 => iteration <= max_replans

\* C19 amended: for every max_replans >= 0 the iteration counter is at most
\* max(1, max_replans) at every point of execute.
C19_IterationAtMostMaxOfOneAndMaxReplans ==
    max_replans >= 0 =>
        iteration <= (IF max_replans > 1 THEN max_replans ELSE 1)

\* C19 witness: with max_replans = 0 the only pass has iteration = 1, and
\* execute returned
C19_Witness ==
    /\ max_replans = 0
    /\ iteration = 1
    /\ pc = "returned"

AgentOrder ==
    <<"data_agent", "planner", "insight_agent", "evaluator",
      "creative_generator">>

\* the agents invoked in pass k, in order
AgentsOf(k) ==
    LET of_k == SelectSeq(calls, LAMBDA c : c.iteration = k)
    IN  [i \in 1..Len(of_k) |-> of_k[i].agent]

IsPrefix(a, b) ==
    Len(a) <= Len(b) /\ \A i \in 1..Len(a) : a[i] = b[i]

\* C20: in every pass the agents are invoked in the order data summary,
\* planner, hypothesis generator, evaluator, each exactly once, also on
\* replanned passes; the recommendation generator is invoked at most once
\* per execute, after the evaluator of the same pass, and is the last
\* agent invoked.
C20_FixedAgentOrder ==
    /\ \A i \in 1..(Len(calls) - 1) :
          calls[i].iteration <= calls[i + 1].iteration
    /\ \A k \in 1..iteration :
          /\ IsPrefix(AgentsOf(k), AgentOrder)
          /\ (k < iteration \/ pc \in {"check_replan", "while"}) =>
                AgentsOf(k) = SubSeq(AgentOrder, 1, 4)
    /\ \A i \in 1..Len(calls) :
          /\ calls[i].iteration \in 1..iteration
          /\ calls[i].agent = "creative_generator" => i = Len(calls)
    /\ pc \in {"create_report", "returned"} =>
          AgentsOf(iteration) = AgentOrder

\* C20 witness: a run of two passes returned after nine agent calls
C20_Witness ==
    /\ pc = "returned"
    /\ iteration = 2
    /\ Len(calls) = 9
    /\ AgentsOf(1) = SubSeq(AgentOrder, 1, 4)
    /\ AgentsOf(2) = AgentOrder

----------------------------------------------------------------------------
(* Properties of the final report (checked under SpecReport) *)

TotalTested == Len(evaluator_output.validation_results)

ValidatedCount == Len(ValidatedResults(evaluator_output.validation_results))

\* C13 as stated: validation_success_rate equals validated_count / total
\* for every pair of counts, and 0 when nothing was evaluated;
\* total_hypotheses_tested equals the number of validation results.
C13_RateIsQuotient ==
    pc = "reported" =>
        /\ report.total_hypotheses_tested = TotalTested
        /\ TotalTested = 0 => report.validation_success_rate = 0
        /\ TotalTested > 0 =>
              report.validation_success_rate * TotalTested
                  = ValidatedCount * One

\* C13 amended: validation_success_rate is validated_count / total rounded
\* to 2 decimals (a multiple of 0.01 at most 0.005 away from the quotient;
\* 4 of 10 gives 0.4), and 0 when nothing was evaluated;
\* total_hypotheses_tested equals the number of validation results.
C13_RateIsQuotientRoundedTo2 ==
    pc = "reported" =>
        LET rate == report.validation_success_rate
            gap == rate * TotalTested - ValidatedCount * One
        IN  /\ report.total_hypotheses_tested = TotalTested
            /\ TotalTested = 0 => rate = 0
            /\ rate % 10000 = 0
            /\ TotalTested > 0 =>
                  /\ 2 * gap <= 10000 * TotalTested
                  /\ 0 - 2 * gap <= 10000 * TotalTested
            /\ (TotalTested = 10 /\ ValidatedCount = 4) => rate = 400000

\* C13 witness: 1 of 3 validated is reported as 0.33
C13_Witness ==
    /\ pc = "reported"
    /\ TotalTested = 3
    /\ ValidatedCount = 1
    /\ report.validation_success_rate = 330000

\* C14: the executive summary names the insight with the highest
\* impact_score and the recommendation with the highest priority_score,
\* the first one on ties; with no insights it is the fixed "No significant
\* insights found" sentence, with no count and no recommendation, also
\* when recommendations exist.
C14_SummaryNamesTopInsightAndRecommendation ==
    pc = "reported" =>
        LET summary == report.executive_summary
            insights == report.key_insights
            recs == report.creative_recommendations
        IN  IF insights = <<>>
            THEN /\ summary.text
                       = "No significant insights found in the analysis."
                 /\ summary.count = None
                 /\ summary.top_finding.len = 0
                 /\ summary.primary_recommendation = <<>>
            ELSE /\ \E i \in 1..Len(insights) :
                       /\ summary.top_finding = insights[i].title
                       /\ \A j \in 1..Len(insights) :
                             /\ insights[j].impact_score
                                    <= insights[i].impact_score
                             /\ insights[j].impact_score
                                    = insights[i].impact_score => i <= j
                 /\ recs = <<>> => summary.primary_recommendation = <<>>
                 /\ recs # <<>> =>
                       \E i \in 1..Len(recs) :
                           /\ summary.primary_recommendation = recs[i].action
                           /\ \A j \in 1..Len(recs) :
                                 /\ recs[j].priority_score
                                        <= recs[i].priority_score
                                 /\ recs[j].priority_score
                                        = recs[i].priority_score => i <= j

\* C14 witness: three insights of equal impact and two recommendations of
\* equal priority; the summary names the first of each
C14_Witness ==
    /\ pc = "reported"
    /\ Len(report.key_insights) = 3
    /\ report.key_insights[1].impact_score
           = report.key_insights[3].impact_score
    /\ report.executive_summary.top_finding = report.key_insights[1].title
    /\ Len(report.creative_recommendations) = 2
    /\ report.creative_recommendations[1].priority_score
           = report.creative_recommendations[2].priority_score
    /\ report.executive_summary.primary_recommendation
           = report.creative_recommendations[1].action

----------------------------------------------------------------------------
(* Properties of the group partition, SpecEval *)

\* C21: in every call of _validate_hypothesis that reaches the partition,
\* group A and group B are disjoint and together hold every row of the
\* frame; with a segment dimension and a non-empty segment value A holds
\* exactly the rows whose value in that dimension equals the segment value
\* and B all the others, otherwise A holds the first floor(n/2) rows in
\* date order and B the remaining ones; the sizes the sample gate compares
\* are the sizes of these two groups
C21_GroupsPartitionRows ==
    (pc = "validated_one" /\ vtrace.n_a # None) =>
        LET n == LenDf(df)
            a == vtrace.group_a
            b == vtrace.group_b
        IN  /\ a \cap b = {}
            /\ a \cup b = 1..n
            /\ vtrace.n_a = Cardinality(a)
            /\ vtrace.n_b = Cardinality(b)
            /\ IF vhyp.segment_dimension \notin {NoneStr, ""}
                  /\ vhyp.segment_value \notin {NoneStr, ""}
               THEN \A i \in 1..n :
                       i \in a <=> RowValue(df, i) = vhyp.segment_value
               ELSE /\ a = {i \in 1..n : 2 * i <= n}
                    /\ \A i \in a, j \in b : i < j

\* a segmented call on the file whose Image and Video rows alternate
C21_Witness ==
    /\ pc = "validated_one"
    /\ vhyp = HImage
    /\ Len(df.blocks) = 4
    /\ vtrace.n_a = 71 /\ vtrace.n_b = 38
    /\ 76 \in vtrace.group_a /\ 75 \in vtrace.group_b

----------------------------------------------------------------------------
(* Properties of the insights and of the bookkeeping of execute, SpecEval *)

\* C22: every insight of an EvaluatorOutput is built from a validated
\* result; its impact score is ten times that result's confidence to one
\* decimal and lies in [0, 10], its category is performance, and its
\* urgency is high exactly when the confidence is above 0.8 and medium
\* otherwise, so critical and low are never assigned
C22_InsightFields ==
    pc = "evaluated" =>
        \A i \in 1..Len(evaluator_output.validated_insights) :
            LET insight == evaluator_output.validated_insights[i]
                confidence == insight.validation.confidence_score
            IN  /\ insight.validation.status = VALIDATED
                /\ insight.impact_score % (One \div 10) = 0
                /\ 2 * (insight.impact_score - 10 * confidence) <= One \div 10
                /\ 2 * (10 * confidence - insight.impact_score) <= One \div 10
                /\ 0 <= insight.impact_score
                /\ insight.impact_score <= 10 * One
                /\ insight.category = "performance"
                /\ insight.urgency \in {"high", "medium"}
                /\ insight.urgency = "high" <=> confidence > 800000

\* a pass with one insight of confidence 0.78 (medium, impact 7.8) and one
\* of confidence 0.94 (high, impact 9.4)
C22_Witness ==
    /\ pc = "evaluated"
    /\ \E i, j \in 1..Len(evaluator_output.validated_insights) :
          LET a == evaluator_output.validated_insights[i]
              b == evaluator_output.validated_insights[j]
          IN  /\ a.validation.confidence_score = 780000
              /\ a.impact_score = 7800000 /\ a.urgency = "medium"
              /\ b.validation.confidence_score = 940000
              /\ b.impact_score = 9400000 /\ b.urgency = "high"

\* C26: the EvaluatorOutput holds one validation result per input
\* hypothesis, in input order and with that hypothesis' id; every
\* hypothesis is in exactly one of validated_insights and
\* rejected_hypotheses; rejected_hypotheses holds the ids of all hypotheses
\* that were not validated, needs_more_data included; and the two lists
\* together are as long as the input
C26_OutputBookkeeping ==
    pc = "evaluated" =>
        LET hypotheses == insight_output
            results == evaluator_output.validation_results
            insights == evaluator_output.validated_insights
            rejected == evaluator_output.rejected_hypotheses
            kept == SelectSeq(hypotheses,
                      LAMBDA h : \E i \in 1..Len(results) :
                          /\ results[i].hypothesis_id = h.hypothesis_id
                          /\ results[i].status = VALIDATED)
            dropped == SelectSeq(hypotheses,
                      LAMBDA h : \E i \in 1..Len(results) :
                          /\ results[i].hypothesis_id = h.hypothesis_id
                          /\ results[i].status # VALIDATED)
        IN  /\ Len(results) = Len(hypotheses)
            /\ \A i \in 1..Len(hypotheses) :
                  results[i].hypothesis_id = hypotheses[i].hypothesis_id
            /\ Len(insights) = Len(kept)
            /\ \A i \in 1..Len(kept) : insights[i].hypothesis = kept[i]
            /\ rejected = [i \in 1..Len(dropped) |-> dropped[i].hypothesis_id]
            /\ \A i \in 1..Len(hypotheses) :
                  (\E j \in 1..Len(insights) :
                       insights[j].hypothesis = hypotheses[i])
                  <=> ~(\E j \in 1..Len(rejected) :
                            rejected[j] = hypotheses[i].hypothesis_id)
            /\ Len(insights) + Len(rejected) = Len(hypotheses)

\* a pass over a needs_more_data hypothesis followed by a validated one
C26_Witness ==
    /\ pc = "evaluated"
    /\ Len(insight_output) = 2
    /\ evaluator_output.validation_results[1].status = NEEDS_MORE_DATA
    /\ evaluator_output.validation_results[2].status = VALIDATED
    /\ Len(evaluator_output.rejected_hypotheses) = 1
    /\ Len(evaluator_output.validated_insights) = 1

\* confidence scores a result of each status can carry
ConfidenceOfStatus(result) ==
    CASE result.status = VALIDATED ->
             result.confidence_score \in {780000, 840000, 940000, One}
      [] result.status = NEEDS_MORE_DATA ->
             result.confidence_score \in {0, 300000}
      [] result.status = REJECTED ->
             result.confidence_score <= 800000

\* C27: a validated result has confidence 0.78, 0.84, 0.94 or 1.0, so that
\* every insight has impact score at least 7.8; a needs_more_data result
\* has confidence 0.0 or 0.3; a rejected result has confidence at most 0.8
C27_ConfidenceByStatus ==
    /\ pc = "validated_one" => ConfidenceOfStatus(vresult)
    /\ pc = "evaluated" =>
          /\ \A i \in 1..Len(evaluator_output.validation_results) :
                ConfidenceOfStatus(evaluator_output.validation_results[i])
          /\ \A i \in 1..Len(evaluator_output.validated_insights) :
                evaluator_output.validated_insights[i].impact_score
                    >= 7800000

\* a rejected result of confidence 0.8, above the lowest validated
\* confidence: p-value in [0.05, 0.1), effect size above 0.5, both groups
\* above 100 rows
C27_Witness ==
    /\ pc = "validated_one"
    /\ vresult.status = REJECTED
    /\ vresult.confidence_score = 800000
    /\ vtrace.p_value >= 50000 /\ vtrace.effect_size > 500000

----------------------------------------------------------------------------
(* Properties of the replanning loop and of the report, Spec and SpecFair *)

\* the largest pass number execute reaches for a cap maxr >= 0
MaxIterations(maxr) == IF maxr > 1 THEN maxr ELSE 1

\* no agent call of the run has raised
AllCallsReturned == \A k \in 1..Len(calls) : ~calls[k].raised

\* execute has returned or raised, or main has exited after it
Terminal == {"returned", "raised", "exited"}

\* C24: the exhaustion RuntimeError is raised only when max_replans < 0,
\* and then before any agent was invoked; for every max_replans >= 0 an
\* execute call whose agent calls all returned ends with a FinalReport and
\* no error
C24_ExhaustionOnlyForNegativeCap ==
    /\ error = "RuntimeError" =>
          (max_replans < 0 /\ calls = <<>> /\ iteration = 0)
    /\ (max_replans >= 0 /\ pc \in Terminal /\ AllCallsReturned) =>
          (error = NoneStr /\ report # NoReport)

\* with max_replans = -1 execute raised the exhaustion error at once
C24_Witness ==
    /\ pc = "raised"
    /\ error = "RuntimeError"
    /\ max_replans = 0 - 1
    /\ calls = <<>>

\* steps left in the current pass, by position in the loop body
StepsLeft ==
    [data_agent |-> 9, planner |-> 8, insight_agent |-> 7, evaluator |-> 6,
     check_replan |-> 5, while |-> 4, creative_generator |-> 3,
     create_report |-> 2, returned |-> 1, raised |-> 1, exited |-> 0]

\* a bound on the steps a run has left: ten for every pass it may still
\* start within max(1, max_replans), and the steps left in the current one
Rank == 10 * (MaxIterations(max_replans) - iteration) + StepsLeft[pc]

\* C25: every execute call ends within max(1, max_replans) passes: each
\* step, an agent call that returns or raises included, lowers a rank that
\* counts the passes left within that cap and never goes below zero, so no
\* run takes more steps than its first rank; for every max_replans >= 0
\* the pass counter stays within max(1, max_replans); a returned report has
\* 1 <= total_iterations <= max(1, max_replans), and a report with fewer
\* than two key insights has total_iterations = max(1, max_replans)
C25_TerminatesWithinCap ==
    /\ [][Rank' < Rank]_vars
    /\ [](Rank >= 0)
    /\ [](max_replans >= 0 => iteration <= MaxIterations(max_replans))
    /\ []((pc \in {"returned", "exited"} /\ error = NoneStr) =>
            /\ 1 <= report.total_iterations
            /\ report.total_iterations <= MaxIterations(max_replans)
            /\ Len(report.key_insights) < 2 =>
                  report.total_iterations = MaxIterations(max_replans))

\* a report with one key insight returned from the third of three passes,
\* and one with two key insights from the first pass do both occur; this is
\* the former
C25_Witness ==
    /\ pc = "returned"
    /\ max_replans = 3
    /\ Len(report.key_insights) = 1
    /\ report.total_iterations = 3
    /\ AllCallsReturned

\* C28: with a data file of fewer than 60 rows every hypothesis yields
\* needs_more_data, the evaluator returns no insight and needs_replan true,
\* execute goes on to the recommendations only in pass
\* max(1, max_replans), and the report it returns has no key insight, the
\* 'No significant insights found' summary and that pass number
C28_SmallDatasetNeverValidates ==
    LenDf(df) < 60 =>
        /\ pc \in {"check_replan"} \cup AfterEvaluation =>
              /\ \A i \in 1..Len(evaluator_output.validation_results) :
                    evaluator_output.validation_results[i].status
                        = NEEDS_MORE_DATA
              /\ evaluator_output.validated_insights = <<>>
              /\ evaluator_output.needs_replan
        /\ pc \in AfterEvaluation =>
              iteration = MaxIterations(max_replans)
        /\ (pc \in {"returned", "exited"} /\ error = NoneStr) =>
              /\ report.key_insights = <<>>
              /\ report.executive_summary.text
                     = "No significant insights found in the analysis."
              /\ report.total_iterations = MaxIterations(max_replans)

\* a 59-row file, max_replans = 3: the report comes from the third pass,
\* which tested a segmented hypothesis and the date split
C28_Witness ==
    /\ pc = "returned"
    /\ LenDf(df) = 59
    /\ max_replans = 3
    /\ report.total_iterations = 3
    /\ insight_output = <<HImage, HTime>>
    /\ report.key_insights = <<>>

\* C29: a restarted pass calls every agent with the arguments of the first
\* pass: the query and the data file path of execute, the default focus
\* dimension, and locals assigned in that same pass; the TaskPlan is passed
\* to no agent, and the evaluator's output (replan_reason,
\* suggested_focus_areas, validation results) to none of a later pass
C29_ReplanCarriesNothingForward ==
    \A k \in 1..Len(calls) :
        LET c == calls[k]
            names == {l.name : l \in c.args.locals}
        IN  /\ \A f \in 1..k :
                  (calls[f].iteration = 1 /\ calls[f].agent = c.agent) =>
                      /\ c.args.query = calls[f].args.query
                      /\ c.args.data_file_path = calls[f].args.data_file_path
                      /\ c.args.focus_dimension
                             = calls[f].args.focus_dimension
                      /\ names = {l.name : l \in calls[f].args.locals}
            /\ c.args.query \in {Query, NoneStr}
            /\ c.args.data_file_path \in {DataFilePath, NoneStr}
            /\ c.args.focus_dimension \in {DefaultFocus, NoneStr}
            /\ \A l \in c.args.locals : l.assigned_in = c.iteration
            /\ "task_plan" \notin names
            /\ "evaluator_output" \in names => c.agent = "creative_generator"

\* the insight agent of the second pass was called with the default focus
\* although the first evaluation gave a replan reason and focus areas
C29_Witness ==
    /\ pc = "evaluator"
    /\ iteration = 2
    /\ evaluator_output.replan_reason # NoReason
    /\ evaluator_output.suggested_focus_areas # <<>>
    /\ calls[Len(calls)].agent = "insight_agent"
    /\ calls[Len(calls)].args.focus_dimension = DefaultFocus

\* C30: every report execute returns counts at least one hypothesis tested
\* and holds at least one recommendation, so that its summary names a
\* primary recommendation whenever it names a finding; a parsed response
\* with no hypothesis makes the insight agent raise, and one with no
\* recommendation makes the creative generator raise, whether or not
\* there are insights, and the run ends there without a report
C30_ReportHasHypothesesAndRecommendations ==
    /\ (pc \in {"returned", "exited"} /\ error = NoneStr) =>
          /\ report.total_hypotheses_tested >= 1
          /\ Len(report.creative_recommendations) >= 1
          /\ report.key_insights # <<>> =>
                report.executive_summary.primary_recommendation # NoAction
    /\ (/\ calls # <<>>
        /\ calls[Len(calls)].agent \in {"insight_agent", "creative_generator"}
        /\ response = LLMResponse(TRUE, <<>>)) =>
          /\ calls[Len(calls)].raised
          /\ pc \in {"raised", "exited"}
          /\ error # NoneStr
          /\ report = NoReport

\* the creative generator raised on an empty recommendation list although
\* the pass had no insight
C30_Witness ==
    /\ pc = "raised"
    /\ calls # <<>>
    /\ calls[Len(calls)].agent = "creative_generator"
    /\ response = LLMResponse(TRUE, <<>>)
    /\ evaluator_output.validated_insights = <<>>
    /\ error = "ZeroDivisionError"

----------------------------------------------------------------------------
(* Properties of LLMClient.generate, SpecLLM *)

\* C23: generate makes at most max_retries attempts, returns on the first
\* success without a further attempt, sleeps once before each retry and
\* not after the last failed attempt, and the delays grow exponentially
\* (each sleep twice the one before) whichever transient error was caught:
\* rate limit, connection error or API error
C23_BoundedRetryExponentialBackoff ==
    pc \in {"generate", "generated", "generate_raised"} =>
        /\ llm.attempt <= llm.max_retries
        /\ pc = "generated" => Len(llm.errors) = llm.attempt - 1
        /\ pc = "generate" => Len(llm.sleeps) = llm.attempt
        /\ (pc = "generate_raised" /\ llm.attempt > 0) =>
              (/\ Len(llm.sleeps) = llm.attempt - 1
               /\ error = llm.errors[Len(llm.errors)])
        /\ \A i \in 1..Len(llm.sleeps) :
              /\ llm.errors[i] \in TransientErrors
              /\ llm.sleeps[i] = IF i = 1 THEN llm.initial_delay
                                 ELSE 2 * llm.sleeps[i - 1]

====
